---- MODULE Spec2Model ----
(***************************************************************************)
(* Model of scodata/funcdata.py: the functional data manager that copies   *)
(* an uploaded MRI file into a per-object directory and records it in a    *)
(* document store, and the reconstruction of handles from stored           *)
(* documents.                                                              *)
(*                                                                         *)
(* Python strings (file names, paths, timestamps) are sequences of         *)
(* one-character strings, so that endswith, basename, normpath, join,      *)
(* formatting and parsing are computed on characters as the code does.     *)
(***************************************************************************)
EXTENDS Integers, Sequences, FiniteSets, TLC

VARIABLES dirs, files, docs, returned, last, calls

vars == <<dirs, files, docs, returned, last, calls>>

-----------------------------------------------------------------------------
(* Bounds of the model *)

\* number of calls of the manager (create_object, from_dict) in one behaviour
MaxCalls == 2

\* number of values uuid.uuid4() can return in the model
NumIds == 2

-----------------------------------------------------------------------------
(* String helpers: str.startswith, str.endswith, str.split('/') *)

startswith(s, p) ==
    Len(s) >= Len(p) /\ SubSeq(s, 1, Len(p)) = p

endswith(s, suffix) ==
    Len(s) >= Len(suffix) /\ SubSeq(s, Len(s) - Len(suffix) + 1, Len(s)) = suffix

SlashPositions(s) == {i \in 1..Len(s) : s[i] = "/"}

Maximum(S) == CHOOSE x \in S : \A y \in S : y <= x

Minimum(S) == CHOOSE x \in S : \A y \in S : x <= y

RECURSIVE split(_)
split(s) ==
    IF SlashPositions(s) = {} THEN <<s>>
    ELSE LET i == Minimum(SlashPositions(s))
         IN  <<SubSeq(s, 1, i - 1)>> \o split(SubSeq(s, i + 1, Len(s)))

RECURSIVE joinslash(_)
joinslash(comps) ==
    IF comps = <<>> THEN <<>>
    ELSE IF Len(comps) = 1 THEN comps[1]
    ELSE comps[1] \o <<"/">> \o joinslash(Tail(comps))

-----------------------------------------------------------------------------
(* posixpath: normpath, basename, join *)

Dot == <<".">>

DotDot == <<".", ".">>

\* the loop of posixpath.normpath over the components of the path
RECURSIVE normcomps(_, _, _)
normcomps(comps, new_comps, initial_slashes) ==
    IF comps = <<>> THEN new_comps
    ELSE LET comp == Head(comps)
             rest == Tail(comps)
         IN  IF comp = <<>> \/ comp = Dot
                 THEN normcomps(rest, new_comps, initial_slashes)
             ELSE IF \/ comp # DotDot
                     \/ (initial_slashes = 0 /\ new_comps = <<>>)
                     \/ (new_comps # <<>> /\ new_comps[Len(new_comps)] = DotDot)
                 THEN normcomps(rest, Append(new_comps, comp), initial_slashes)
             ELSE IF new_comps # <<>>
                 THEN normcomps(rest, SubSeq(new_comps, 1, Len(new_comps) - 1),
                                initial_slashes)
             ELSE normcomps(rest, new_comps, initial_slashes)

normpath(path) ==
    IF path = <<>> THEN Dot
    ELSE LET initial_slashes ==
                 IF ~startswith(path, <<"/">>) THEN 0
                 ELSE IF startswith(path, <<"/", "/">>)
                         /\ ~startswith(path, <<"/", "/", "/">>) THEN 2
                 ELSE 1
             body == joinslash(normcomps(split(path), <<>>, initial_slashes))
             lead == [i \in 1..initial_slashes |-> "/"]
             p    == lead \o body
         IN  IF p = <<>> THEN Dot ELSE p

basename(p) ==
    IF SlashPositions(p) = {} THEN p
    ELSE SubSeq(p, Maximum(SlashPositions(p)) + 1, Len(p))

\* os.path.join(a, b) for two arguments
join(a, b) ==
    IF startswith(b, <<"/">>) THEN b
    ELSE IF a = <<>> \/ endswith(a, <<"/">>) THEN a \o b
    ELSE a \o <<"/">> \o b

-----------------------------------------------------------------------------
(* Constants of the module and of the datastore module it imports *)

DATA_DIRECTORY == <<"d", "a", "t", "a">>

PROPERTY_NAME == "name"

PROPERTY_FILENAME == "filename"

PROPERTY_FILESIZE == "filesize"

PROPERTY_MIMETYPE == "mimetype"

PROPERTY_FUNCDATAFILE == "funcdatafile"

PROPERTY_READONLY == "readOnly"

\* base_directory given to the manager's constructor
base_directory == <<"/", "d">>

-----------------------------------------------------------------------------
(* Timestamps: datetime values, their stored form, and strptime *)

Digits == <<"0", "1", "2", "3", "4", "5", "6", "7", "8", "9">>

IsDigit(c) == \E i \in 1..10 : Digits[i] = c

DigitValue(c) == (CHOOSE i \in 1..10 : Digits[i] = c) - 1

\* n written with exactly w decimal digits (zero padded)
RECURSIVE zfill(_, _)
zfill(n, w) ==
    IF w = 0 THEN <<>> ELSE zfill(n \div 10, w - 1) \o <<Digits[(n % 10) + 1]>>

\* int() of a string of digits
RECURSIVE atoi(_)
atoi(s) ==
    IF s = <<>> THEN 0
    ELSE 10 * atoi(SubSeq(s, 1, Len(s) - 1)) + DigitValue(s[Len(s)])

AllDigits(s) == \A i \in 1..Len(s) : IsDigit(s[i])

\* The date, hour and minute are the same in every timestamp of the model;
\* seconds and microseconds vary.
DateHourMinute == <<"2", "0", "2", "0", "-", "0", "1", "-", "0", "1", "T", "0", "0", ":", "0", "0", ":">>

\* str(timestamp.isoformat()) as the document schema gives it:
\* YYYY-MM-DDTHH:MM:SS.ffffff
timestamp_string(timestamp) ==
    DateHourMinute \o zfill(timestamp.second, 2) \o <<".">>
        \o zfill(timestamp.microsecond, 6)

\* %f of strptime: the fraction is padded with zeros on the right to 6 digits
RECURSIVE rpad(_)
rpad(s) == IF Len(s) >= 6 THEN s ELSE rpad(Append(s, "0"))

\* strptime with the fraction read but not kept (as under a format without
\* microsecond precision)
strptime_without_fraction(s) ==
    LET n    == Len(DateHourMinute)
        rest == SubSeq(s, n + 1, Len(s))
        dots == {i \in 1..Len(rest) : rest[i] = "."}
        bad  == [ok |-> FALSE, value |-> [second |-> 0, microsecond |-> 0]]
    IN  IF ~startswith(s, DateHourMinute) \/ dots = {} THEN bad
        ELSE LET d  == Minimum(dots)
                 ss == SubSeq(rest, 1, d - 1)
                 ff == SubSeq(rest, d + 1, Len(rest))
             IN  IF /\ Len(ss) \in 1..2 /\ AllDigits(ss) /\ atoi(ss) <= 61
                    /\ Len(ff) \in 1..6 /\ AllDigits(ff)
                 THEN [ok |-> TRUE,
                       value |-> [second |-> atoi(ss), microsecond |-> 0]]
                 ELSE bad

\* datetime.datetime.strptime(s, '%Y-%m-%dT%H:%M:%S.%f'):
\* %S matches one or two digits (00..61), %f one to six digits, and nothing
\* may remain. Returns [ok, value].
strptime(s) ==
    LET n    == Len(DateHourMinute)
        rest == SubSeq(s, n + 1, Len(s))
        dots == {i \in 1..Len(rest) : rest[i] = "."}
        bad  == [ok |-> FALSE, value |-> [second |-> 0, microsecond |-> 0]]
    IN  IF ~startswith(s, DateHourMinute) \/ dots = {} THEN bad
        ELSE LET d  == Minimum(dots)
                 ss == SubSeq(rest, 1, d - 1)
                 ff == SubSeq(rest, d + 1, Len(rest))
             IN  IF /\ Len(ss) \in 1..2 /\ AllDigits(ss) /\ atoi(ss) <= 61
                    /\ Len(ff) \in 1..6 /\ AllDigits(ff)
                 THEN [ok |-> TRUE,
                       value |-> [second |-> atoi(ss),
                                  microsecond |-> atoi(rpad(ff))]]
                 ELSE bad

-----------------------------------------------------------------------------
(* Results of operations: err is "none" or the exception raised, out the   *)
(* set holding the returned handle (empty when an exception is raised).    *)

Return(h) == [err |-> "none", out |-> {h}]

Raise(e) == [err |-> e, out |-> {}]

-----------------------------------------------------------------------------
(* Handles *)

\* datastore.DataObjectHandle.__init__: keeps the fields; a timestamp that
\* is not given is the current UTC time
DataObjectHandle(identifier, timestamp, properties, directory, is_active) ==
    [identifier |-> identifier,
     timestamp  |-> timestamp,
     properties |-> properties,
     directory  |-> directory,
     is_active  |-> is_active]

\* the handle with the data file placed in the object directory itself
FunctionalDataHandle_in_directory(identifier, properties, directory, timestamp, is_active) ==
    IF PROPERTY_FILENAME \notin DOMAIN properties THEN Raise("KeyError")
    ELSE Return([identifier     |-> identifier,
                 timestamp      |-> timestamp,
                 properties     |-> properties,
                 directory      |-> directory,
                 is_active      |-> is_active,
                 data_directory |-> join(directory, DATA_DIRECTORY),
                 data_file      |-> join(directory,
                                         properties[PROPERTY_FILENAME])])

\* FunctionalDataHandle.__init__
FunctionalDataHandle(identifier, properties, directory, timestamp, is_active) ==
    LET base == DataObjectHandle(identifier, timestamp, properties, directory,
                                 is_active)
        data_directory == join(directory, DATA_DIRECTORY)
    IN  IF PROPERTY_FILENAME \notin DOMAIN properties THEN Raise("KeyError")
        ELSE Return([identifier     |-> base.identifier,
                     timestamp      |-> base.timestamp,
                     properties     |-> base.properties,
                     directory      |-> base.directory,
                     is_active      |-> base.is_active,
                     data_directory |-> data_directory,
                     data_file      |-> join(data_directory,
                                             properties[PROPERTY_FILENAME])])

-----------------------------------------------------------------------------
(* Reconstruction from a stored document *)

\* from_dict taking a document without an active flag as active
from_dict_default_active(self_directory, document) ==
    IF "_id" \notin DOMAIN document THEN Raise("KeyError")
    ELSE IF "timestamp" \notin DOMAIN document THEN Raise("KeyError")
    ELSE LET identifier == document["_id"]
             active     == IF "active" \in DOMAIN document
                               THEN document["active"] ELSE TRUE
             directory  == join(self_directory, identifier)
             timestamp  == strptime(document["timestamp"])
         IN  IF ~timestamp.ok THEN Raise("ValueError")
             ELSE IF "properties" \notin DOMAIN document THEN Raise("KeyError")
             ELSE FunctionalDataHandle(identifier, document["properties"],
                                       directory, timestamp.value, active)

from_dict(self_directory, document) ==
    IF "_id" \notin DOMAIN document THEN Raise("KeyError")
    ELSE IF "active" \notin DOMAIN document THEN Raise("KeyError")
    ELSE IF "timestamp" \notin DOMAIN document THEN Raise("KeyError")
    ELSE LET identifier == document["_id"]
             active     == document["active"]
             directory  == join(self_directory, identifier)
             timestamp  == strptime(document["timestamp"])
         IN  IF ~timestamp.ok THEN Raise("ValueError")
             ELSE IF "properties" \notin DOMAIN document THEN Raise("KeyError")
             ELSE FunctionalDataHandle(identifier, document["properties"],
                                       directory, timestamp.value, active)

-----------------------------------------------------------------------------
(* The local filesystem: dirs is the set of directories, files the set of  *)
(* regular files [path, source, size], at most one per path.               *)

\* os.access(path, os.F_OK)
access(fs_dirs, fs_files, path) ==
    path \in fs_dirs \/ \E f \in fs_files : f.path = path

dirname(p) ==
    IF SlashPositions(p) = {} THEN <<>>
    ELSE LET i == Maximum(SlashPositions(p))
         IN  IF i = 1 THEN <<"/">> ELSE SubSeq(p, 1, i - 1)

\* os.makedirs(path): the directory and the missing directories above it
RECURSIVE makedirs(_, _)
makedirs(fs_dirs, path) ==
    IF path \in fs_dirs \/ path = <<>> \/ path = <<"/">> THEN fs_dirs
    ELSE makedirs(fs_dirs, dirname(path)) \cup {path}

\* mkdir that accepts a directory that exists (as os.makedirs with exist_ok)
mkdir_exist_ok(fs_dirs, fs_files, path) ==
    IF dirname(path) \notin fs_dirs
        THEN [ok |-> FALSE, dirs |-> fs_dirs]
        ELSE [ok |-> TRUE, dirs |-> fs_dirs \cup {path}]

\* os.mkdir(path): fails when the path exists or its parent does not
mkdir(fs_dirs, fs_files, path) ==
    IF access(fs_dirs, fs_files, path) \/ dirname(path) \notin fs_dirs
        THEN [ok |-> FALSE, dirs |-> fs_dirs]
        ELSE [ok |-> TRUE, dirs |-> fs_dirs \cup {path}]

\* The files of the caller that can be read, with their sizes in bytes
SourceFiles ==
    {[path |-> <<"/", "u", "/", "a", ".", "n", "i", "i">>, size |-> 3],
     [path |-> <<"/", "v", "/", "a", ".", "n", "i", "i">>, size |-> 5],
     [path |-> <<"/", "u", "/", "a", ".", "m", "g", "h", ".", "g", "z">>, size |-> 6],
     [path |-> <<"/", "u", "/", "a", ".", "n", "i", "i", ".", "g", "z">>, size |-> 4],
     [path |-> <<"/", "u", "/", "a", ".", "m", "g", "z">>, size |-> 2],
     [path |-> <<"/", "u", "/", "a", ".", "m", "g", "h">>, size |-> 1],
     [path |-> <<"a", ".", "m", "g", "h">>, size |-> 2],
     [path |-> <<"/", "u", "/", ".", "n", "i", "i">>, size |-> 1],
     [path |-> <<"/", "u", "/", "a", ".", "t", "x", "t">>, size |-> 2],
     [path |-> <<"/", "u", "/", "a", ".", "g", "z">>, size |-> 3],
     [path |-> <<"/", "u", "/", "a", "m", "g", "z">>, size |-> 1],
     [path |-> <<"/", "u", "/", "a", ".", "n", "i", "i", ".", "t", "x", "t">>, size |-> 2],
     [path |-> <<"/", "u", "/", "a", ".", "N", "I", "I">>, size |-> 3],
     [path |-> <<"/", "u", "/", "a", ".", "m", "g", "h", ".", "g", "z", ".", "b", "a", "k">>, size |-> 6]}

\* Paths that cannot be opened for reading as a file: a file name followed
\* by a slash, the directory above a file, the empty path
UnreadablePaths ==
    {<<"/", "u", "/", "a", ".", "n", "i", "i", "/">>,
     <<"/", "u", "/", "a", ".", "m", "g", "z", "/", ".", ".">>,
     <<>>}

\* The paths create_object is called with in a sequence of calls
Uploads ==
    {<<"/", "u", "/", "a", ".", "n", "i", "i">>,
     <<"/", "v", "/", "a", ".", "n", "i", "i">>,
     <<"/", "u", "/", "a", ".", "m", "g", "h", ".", "g", "z">>,
     <<"/", "u", "/", "a", ".", "n", "i", "i", "/">>,
     <<"/", "u", "/", "a", ".", "t", "x", "t">>,
     <<"/", "u", "/", "a", ".", "g", "z">>,
     <<"/", "u", "/", "a", "m", "g", "z">>,
     <<"/", "u", "/", "a", ".", "m", "g", "z", "/", ".", ".">>,
     <<>>}

\* The paths of a single call of create_object on an empty base directory:
\* every readable file and every unreadable path
NamedUploads == {f.path : f \in SourceFiles} \cup UnreadablePaths

Readable(src) == \E f \in SourceFiles : f.path = src

source_size(src) == (CHOOSE f \in SourceFiles : f.path = src).size

\* a copy whose short write goes unnoticed
copyfile_unchecked(fs_files, src, dst, interrupted) ==
    IF ~(\E f \in SourceFiles : f.path = src)
        THEN [ok |-> FALSE, files |-> fs_files]
    ELSE LET full == (CHOOSE f \in SourceFiles : f.path = src).size
             n    == IF interrupted THEN full - 1 ELSE full
         IN  [ok    |-> TRUE,
              files |-> {f \in fs_files : f.path # dst}
                            \cup {[path |-> dst, source |-> src, size |-> n]}]

\* shutil.copyfile(src, dst): opens src, then creates or truncates dst and
\* writes the bytes; when interrupted (disk full) dst is left incomplete
copyfile(fs_files, src, dst, interrupted) ==
    IF ~Readable(src) THEN [ok |-> FALSE, files |-> fs_files]
    ELSE LET n == IF interrupted THEN source_size(src) - 1 ELSE source_size(src)
         IN  [ok    |-> ~interrupted,
              files |-> {f \in fs_files : f.path # dst}
                            \cup {[path |-> dst, source |-> src, size |-> n]}]

\* os.path.getsize(path)
getsize(fs_files, path) == (CHOOSE f \in fs_files : f.path = path).size

-----------------------------------------------------------------------------
(* The document store (datastore.DefaultObjectStore) *)

to_dict(obj) ==
    ("_id" :> obj.identifier) @@ ("active" :> obj.is_active)
        @@ ("timestamp" :> timestamp_string(obj.timestamp))
        @@ ("properties" :> obj.properties)

\* insert semantics: fails if the identifier is already present
insert_object(store, obj) ==
    IF \E d \in store : d["_id"] = obj.identifier
        THEN [ok |-> FALSE, docs |-> store]
        ELSE [ok |-> TRUE, docs |-> store \cup {to_dict(obj)}]

-----------------------------------------------------------------------------
(* create_object *)

Unsupported == "unsupported file type"

\* the suffix test without the .mgz case
mimetype_without_mgz(prop_name) ==
    IF \/ endswith(prop_name, <<".", "n", "i", "i", ".", "g", "z">>)
       \/ endswith(prop_name, <<".", "m", "g", "h", ".", "g", "z">>)
        THEN "application/x-gzip"
    ELSE IF endswith(prop_name, <<".", "n", "i", "i">>)
        THEN "application/NIfTI-1"
    ELSE IF endswith(prop_name, <<".", "m", "g", "h">>)
        THEN "application/MGH"
    ELSE Unsupported

\* the suffix test taking every .gz file as a gzip file
mimetype_any_gz(prop_name) ==
    IF \/ endswith(prop_name, <<".", "g", "z">>)
       \/ endswith(prop_name, <<".", "m", "g", "z">>)
        THEN "application/x-gzip"
    ELSE IF endswith(prop_name, <<".", "n", "i", "i">>)
        THEN "application/NIfTI-1"
    ELSE IF endswith(prop_name, <<".", "m", "g", "h">>)
        THEN "application/MGH"
    ELSE Unsupported

\* the suffix test of create_object
mimetype(prop_name) ==
    IF \/ endswith(prop_name, <<".", "n", "i", "i", ".", "g", "z">>)
       \/ endswith(prop_name, <<".", "m", "g", "z">>)
       \/ endswith(prop_name, <<".", "m", "g", "h", ".", "g", "z">>)
        THEN "application/x-gzip"
    ELSE IF endswith(prop_name, <<".", "n", "i", "i">>)
        THEN "application/NIfTI-1"
    ELSE IF endswith(prop_name, <<".", "m", "g", "h">>)
        THEN "application/MGH"
    ELSE Unsupported

\* the properties built without looking at read_only
initial_properties_never_read_only(prop_name, filesize, prop_mime, read_only) ==
    (PROPERTY_NAME :> prop_name) @@ (PROPERTY_FILENAME :> prop_name)
        @@ (PROPERTY_FILESIZE :> filesize)
        @@ (PROPERTY_MIMETYPE :> prop_mime)
        @@ (PROPERTY_FUNCDATAFILE :> prop_name)

\* the initial set of properties of the new object
initial_properties(prop_name, filesize, prop_mime, read_only) ==
    LET properties ==
            (PROPERTY_NAME :> prop_name) @@ (PROPERTY_FILENAME :> prop_name)
                @@ (PROPERTY_FILESIZE :> filesize)
                @@ (PROPERTY_MIMETYPE :> prop_mime)
                @@ (PROPERTY_FUNCDATAFILE :> prop_name)
    IN  IF read_only THEN properties @@ (PROPERTY_READONLY :> TRUE)
        ELSE properties

\* the values uuid.uuid4() returns
Ids == {<<"0", Digits[i + 1]>> : i \in 1..NumIds}

\* the values of datetime.datetime.utcnow()
Times ==
    {[second |-> 5, microsecond |-> 0], [second |-> 59, microsecond |-> 120]}

\* What the environment may make of the filesystem steps of one call: none
\* fails, or the creation of the object directory, of the data directory or
\* the copy fails (permission denied, disk full).
FsFaults == {"none", "makedirs", "mkdir", "copyfile"}

\* What the environment may make of the end of one call: it completes, the
\* store fails the insert, or the process is killed between the file copy
\* and the insert.
StoreFaults == {"none", "insert_object", "crash"}

\* The outcome of one call: the filesystem and the store after it, the step
\* it ended at, the identifier it generated, the exception and the handle.
Outcome(d, f, s, step, id, err, out) ==
    [dirs |-> d, files |-> f, docs |-> s, step |-> step, id |-> id,
     err |-> err, out |-> out]

\* the filesystem steps undone when one of them fails
store_file_with_rollback(self_directory, fs_dirs, fs_files, filename, prop_name, identifier, fault) ==
    LET object_dir    == join(self_directory, identifier)
        data_dir      == join(object_dir, DATA_DIRECTORY)
        uploaded_file == join(data_dir, prop_name)
        exists        == access(fs_dirs, fs_files, object_dir)
        dirs1         == IF exists THEN fs_dirs ELSE makedirs(fs_dirs, object_dir)
        md            == mkdir(dirs1, fs_files, data_dir)
        cp            == copyfile(fs_files, filename, uploaded_file,
                                  fault = "copyfile")
    IN  IF ~exists /\ fault = "makedirs"
            THEN [step |-> "makedirs", err |-> "OSError", dirs |-> fs_dirs,
                  files |-> fs_files]
        ELSE IF fault = "mkdir" \/ ~md.ok
            THEN [step |-> "mkdir", err |-> "OSError", dirs |-> fs_dirs,
                  files |-> fs_files]
        ELSE IF ~cp.ok
            THEN [step |-> "copyfile", err |-> "IOError", dirs |-> fs_dirs,
                  files |-> fs_files]
        ELSE [step |-> "copied", err |-> "none", dirs |-> md.dirs,
              files |-> cp.files]

\* the object directory created without the test that it exists
store_file_always_makedirs(self_directory, fs_dirs, fs_files, filename, prop_name, identifier, fault) ==
    LET object_dir    == join(self_directory, identifier)
        data_dir      == join(object_dir, DATA_DIRECTORY)
        uploaded_file == join(data_dir, prop_name)
        exists        == access(fs_dirs, fs_files, object_dir)
        dirs1         == makedirs(fs_dirs, object_dir)
        md            == mkdir(dirs1, fs_files, data_dir)
        cp            == copyfile(fs_files, filename, uploaded_file,
                                  fault = "copyfile")
    IN  IF exists \/ fault = "makedirs"
            THEN [step |-> "makedirs", err |-> "OSError", dirs |-> fs_dirs,
                  files |-> fs_files]
        ELSE IF fault = "mkdir" \/ ~md.ok
            THEN [step |-> "mkdir", err |-> "OSError", dirs |-> dirs1,
                  files |-> fs_files]
        ELSE IF ~cp.ok
            THEN [step |-> "copyfile", err |-> "IOError", dirs |-> md.dirs,
                  files |-> cp.files]
        ELSE [step |-> "copied", err |-> "none", dirs |-> md.dirs,
              files |-> cp.files]

\* the creation of the directories and the copy of the file
store_file(self_directory, fs_dirs, fs_files, filename, prop_name, identifier, fault) ==
    LET object_dir    == join(self_directory, identifier)
        data_dir      == join(object_dir, DATA_DIRECTORY)
        uploaded_file == join(data_dir, prop_name)
        exists        == access(fs_dirs, fs_files, object_dir)
        dirs1         == IF exists THEN fs_dirs ELSE makedirs(fs_dirs, object_dir)
        md            == mkdir(dirs1, fs_files, data_dir)
        cp            == copyfile(fs_files, filename, uploaded_file,
                                  fault = "copyfile")
    IN  IF ~exists /\ fault = "makedirs"
            THEN [step |-> "makedirs", err |-> "OSError", dirs |-> fs_dirs,
                  files |-> fs_files]
        ELSE IF fault = "mkdir" \/ ~md.ok
            THEN [step |-> "mkdir", err |-> "OSError", dirs |-> dirs1,
                  files |-> fs_files]
        ELSE IF ~cp.ok
            THEN [step |-> "copyfile", err |-> "IOError", dirs |-> md.dirs,
                  files |-> cp.files]
        ELSE [step |-> "copied", err |-> "none", dirs |-> md.dirs,
              files |-> cp.files]

\* the properties, the handle and the insert, once the file is copied
register(fs, store, prop_name, prop_mime, uploaded_file, identifier, object_dir, read_only, now, fault) ==
    LET properties == initial_properties(prop_name,
                                         getsize(fs.files, uploaded_file),
                                         prop_mime, read_only)
        obj == FunctionalDataHandle(identifier, properties, object_dir, now,
                                    TRUE)
        h   == CHOOSE x \in obj.out : TRUE
        ins == insert_object(store, h)
    IN  IF fault = "crash"
            THEN Outcome(fs.dirs, fs.files, store, "crash", identifier,
                         "crash", {})
        ELSE IF obj.err # "none"
            THEN Outcome(fs.dirs, fs.files, store, "handle", identifier,
                         obj.err, {})
        ELSE IF fault = "insert_object" \/ ~ins.ok
            THEN Outcome(fs.dirs, fs.files, store, "insert_object",
                         identifier, "StoreError", {})
        ELSE Outcome(fs.dirs, fs.files, ins.docs, "done", identifier, "none",
                     {h})

\* create_object(filename, read_only): the set of outcomes the call can
\* have. The identifier is drawn by uuid.uuid4() after the suffix test, the
\* timestamp is read when the handle is constructed, and the environment
\* decides which step fails, if any.
create_object(self_directory, fs_dirs, fs_files, store, filename, read_only) ==
    LET prop_name == basename(normpath(filename))
        prop_mime == mimetype(prop_name)
    IN  IF prop_mime = Unsupported
            THEN {Outcome(fs_dirs, fs_files, store, "suffix", <<>>,
                          "ValueError", {})}
        ELSE UNION {
            LET identifier    == uuid
                object_dir    == join(self_directory, identifier)
                uploaded_file == join(join(object_dir, DATA_DIRECTORY),
                                      prop_name)
                fs == store_file(self_directory, fs_dirs, fs_files, filename,
                                 prop_name, identifier, fault)
            IN  IF fs.err # "none"
                    THEN {Outcome(fs.dirs, fs.files, store, fs.step,
                                  identifier, fs.err, {})}
                ELSE {register(fs, store, prop_name, prop_mime, uploaded_file,
                               identifier, object_dir, read_only, now, f2) :
                          now \in Times, f2 \in StoreFaults}
            : uuid \in Ids, fault \in FsFaults}

-----------------------------------------------------------------------------
(* Inputs *)

\* base directories a manager is constructed with when documents are read
Bases == {base_directory, <<"/", "m", "/">>}

\* a document as a store may hold it: without one field
without(document, key) ==
    [k \in DOMAIN document \ {key} |-> document[k]]

with_timestamp(document, s) ==
    [k \in DOMAIN document |-> IF k = "timestamp" THEN s ELSE document[k]]

\* timestamps of other forms: no fraction, a one-digit fraction, a
\* seven-digit fraction, no date
OtherTimestamps ==
    {DateHourMinute \o <<"0", "5">>,
     DateHourMinute \o <<"0", "5", ".", "5">>,
     DateHourMinute \o <<"0", "5", ".", "0", "0", "0", "0", "0", "0", "1">>,
     <<"0", "5", ".", "0", "0", "0", "0", "0", "0">>}

\* the documents from_dict is applied to: those of the store, and those with
\* a field missing or another timestamp
Variants(d) ==
    {d} \cup {without(d, k) : k \in DOMAIN d}
        \cup {[k \in DOMAIN d |->
                  IF k = "properties" THEN without(d[k], PROPERTY_FILENAME)
                  ELSE d[k]]}
        \cup {with_timestamp(d, s) : s \in OtherTimestamps}

-----------------------------------------------------------------------------
(* State and actions *)

Init ==
    /\ dirs = {}
    /\ files = {}
    /\ docs = {}
    /\ returned = <<>>
    /\ last = [op |-> "init"]
    /\ calls = 0

\* one call of create_object with one of the given paths
Create(uploads) ==
    \E filename \in uploads, read_only \in BOOLEAN :
        \E r \in create_object(base_directory, dirs, files, docs, filename,
                              read_only) :
            /\ calls' = calls + 1
            /\ dirs' = r.dirs
            /\ files' = r.files
            /\ docs' = r.docs
            /\ returned' = IF r.err = "none"
                               THEN Append(returned, CHOOSE h \in r.out : TRUE)
                               ELSE returned
            /\ last' = [op |-> "create_object", filename |-> filename,
                        read_only |-> read_only, id |-> r.id, step |-> r.step,
                        err |-> r.err, out |-> r.out]

CreateObject == calls < MaxCalls /\ Create(Uploads)

\* the first call of a manager on an empty base directory, with any name
CreateNamed == calls = 0 /\ Create(NamedUploads)

FromDict ==
    /\ calls < MaxCalls
    /\ \E self_directory \in Bases, d \in docs :
        \E document \in Variants(d) :
            \E r \in {from_dict(self_directory, document)} :
                /\ last' = [op |-> "from_dict", directory |-> self_directory,
                            document |-> document, err |-> r.err, out |-> r.out]
                /\ calls' = calls + 1
                /\ UNCHANGED <<dirs, files, docs, returned>>

Next == CreateObject \/ FromDict

Spec == Init /\ [][Next]_vars

SpecSuffix == Init /\ [][CreateNamed]_vars

-----------------------------------------------------------------------------
(* Vocabulary of the properties *)

GzipSuffixes ==
    {<<".", "n", "i", "i", ".", "g", "z">>,
     <<".", "m", "g", "z">>,
     <<".", "m", "g", "h", ".", "g", "z">>}

NiftiSuffix == <<".", "n", "i", "i">>

MghSuffix == <<".", "m", "g", "h">>

HasGzipSuffix(name) == \E x \in GzipSuffixes : endswith(name, x)

HasAcceptedSuffix(name) ==
    HasGzipSuffix(name) \/ endswith(name, NiftiSuffix)
        \/ endswith(name, MghSuffix)

\* the base name of the path the last call of create_object was given
LastName == basename(normpath(last.filename))

Slash == <<"/">>

\* <base>/<identifier> and <base>/<identifier>/data under the manager's base
ObjectDirOf(id) == base_directory \o Slash \o id

DataDirOf(id) == ObjectDirOf(id) \o Slash \o DATA_DIRECTORY

StoredFor(id) == {d \in docs : d["_id"] = id}

-----------------------------------------------------------------------------
(* C1 *)

\* C1: create_object assigns the MIME type by the suffix of the base name:
\* .nii.gz, .mgz and .mgh.gz give application/x-gzip, .nii gives
\* application/NIfTI-1, .mgh gives application/MGH; a name with one of these
\* suffixes is never refused as unsupported, and the mimetype property of
\* the returned handle and of the stored document is the one of the suffix.
C1_MimeBySuffix ==
    last.op = "create_object" =>
        LET expected(mime) ==
                /\ last.err # "ValueError"
                /\ \A h \in last.out :
                    /\ h.properties[PROPERTY_MIMETYPE] = mime
                    /\ \E d \in StoredFor(h.identifier) :
                           d["properties"][PROPERTY_MIMETYPE] = mime
        IN  /\ HasGzipSuffix(LastName) => expected("application/x-gzip")
            /\ endswith(LastName, NiftiSuffix) => expected("application/NIfTI-1")
            /\ endswith(LastName, MghSuffix) => expected("application/MGH")
            /\ last.err = "none" => HasAcceptedSuffix(LastName) /\ last.out # {}

C1_Witness ==
    /\ last.op = "create_object"
    /\ last.err = "none"
    /\ endswith(LastName, <<".", "m", "g", "h", ".", "g", "z">>)
    /\ \E h \in last.out : h.properties[PROPERTY_MIMETYPE] = "application/x-gzip"

-----------------------------------------------------------------------------
(* C2 *)

\* C2: a call of create_object with a file name whose base name has none of
\* the accepted suffixes raises the unsupported-file-type error (ValueError),
\* returns no handle, and leaves the directories, the files and the
\* documents as they were before the call.
C2_UnsupportedLeavesNoState ==
    [][last'.op = "create_object"
          => \A filename \in {last'.filename} :
                 ~HasAcceptedSuffix(basename(normpath(filename)))
                     => /\ last'.err = "ValueError"
                        /\ last'.out = {}
                        /\ dirs' = dirs
                        /\ files' = files
                        /\ docs' = docs]_vars

C2_Witness ==
    /\ last.op = "create_object"
    /\ last.err = "ValueError"
    /\ ~HasAcceptedSuffix(LastName)
    /\ dirs # {}
    /\ docs # {}

-----------------------------------------------------------------------------
(* C3 *)

\* C3: for every handle H returned by create_object, the store holds a
\* document for H, and from_dict of that document, by a manager of any base
\* directory, succeeds with a handle of H's identifier, properties,
\* timestamp and active flag, whose directory is the manager's base
\* directory joined with the identifier, which is H's directory when the
\* base directory is the one H was created under.
C3_RoundTrip ==
    \A i \in 1..Len(returned) :
        LET H == returned[i]
        IN  /\ StoredFor(H.identifier) # {}
            /\ \A d \in StoredFor(H.identifier), b \in Bases :
                   LET r == from_dict(b, d)
                   IN  /\ r.err = "none"
                       /\ r.out # {}
                       /\ \A h \in r.out :
                              /\ h.identifier = H.identifier
                              /\ h.properties = H.properties
                              /\ h.timestamp = H.timestamp
                              /\ h.is_active = H.is_active
                              /\ h.directory = join(b, H.identifier)
                              /\ b = base_directory
                                     => h.directory = H.directory

C3_Witness ==
    /\ last.op = "from_dict"
    /\ last.err = "none"
    /\ last.document \in docs
    /\ \E i \in 1..Len(returned), h \in last.out :
           /\ returned[i].identifier = h.identifier
           /\ returned[i].timestamp = h.timestamp
           /\ h.timestamp.microsecond = 120

-----------------------------------------------------------------------------
(* C4 *)

\* C4: the handles returned by create_object have pairwise distinct
\* identifiers and pairwise distinct directories, and no step changes or
\* removes the data file or the document of a handle returned earlier.
C4_DistinctObjects ==
    [][/\ \A i, j \in 1..Len(returned') :
              i # j => /\ returned'[i].identifier # returned'[j].identifier
                       /\ returned'[i].directory # returned'[j].directory
                       /\ returned'[i].data_file # returned'[j].data_file
       /\ \A i \in 1..Len(returned) :
              /\ \A f \in files : f.path = returned[i].data_file => f \in files'
              /\ \A d \in StoredFor(returned[i].identifier) : d \in docs'
              /\ returned'[i] = returned[i]]_vars

C4_Witness ==
    /\ Len(returned) = 2
    /\ \E f1, f2 \in files :
           /\ f1.path = returned[1].data_file
           /\ f2.path = returned[2].data_file
           /\ f1.source = f2.source

-----------------------------------------------------------------------------
(* C5 *)

\* directory/data/<filename property>
DataFileUnder(directory, properties) ==
    directory \o Slash \o DATA_DIRECTORY \o Slash
        \o properties[PROPERTY_FILENAME]

\* C5: every handle returned by create_object has the base directory joined
\* with its identifier as directory, directory/data/<filename property> as
\* data_file, and the base name of the path given to create_object as
\* filename property; every handle from_dict reconstructs has the base
\* directory of the reconstructing manager joined with the identifier as
\* directory and directory/data/<filename property> as data_file, and no
\* stored document holds a directory.
C5_DataFilePath ==
    /\ \A i \in 1..Len(returned) :
           LET H == returned[i]
           IN  /\ H.directory = join(base_directory, H.identifier)
               /\ H.data_file = DataFileUnder(H.directory, H.properties)
               /\ \E f \in files :
                      /\ f.path = H.data_file
                      /\ H.properties[PROPERTY_FILENAME]
                             = basename(normpath(f.source))
    /\ last.op = "create_object" =>
           \A h \in last.out : h.properties[PROPERTY_FILENAME] = LastName
    /\ \A d \in docs :
           /\ DOMAIN d = {"_id", "active", "timestamp", "properties"}
           /\ \A b \in Bases : \A h \in from_dict(b, d).out :
                  /\ h.directory = join(b, d["_id"])
                  /\ h.data_file = DataFileUnder(h.directory, h.properties)
    /\ last.op = "from_dict" =>
           \A h \in last.out :
               /\ h.directory = join(last.directory, h.identifier)
               /\ h.data_file = DataFileUnder(h.directory, h.properties)

C5_Witness ==
    /\ last.op = "from_dict"
    /\ last.directory # base_directory
    /\ \E h \in last.out :
           /\ h.data_file = DataFileUnder(h.directory, h.properties)
           /\ \E i \in 1..Len(returned) :
                  /\ returned[i].identifier = h.identifier
                  /\ returned[i].data_file # h.data_file

-----------------------------------------------------------------------------
(* C6 *)

OtherProperties ==
    {PROPERTY_NAME, PROPERTY_FILENAME, PROPERTY_FILESIZE, PROPERTY_MIMETYPE,
     PROPERTY_FUNCDATAFILE}

\* C6: a successful create_object(f, read_only) returns a handle whose
\* properties hold the read-only flag, set true, exactly when read_only is
\* true, the inserted document holds the same properties, and the other
\* properties (name, filename, file size, MIME type, data-file reference)
\* are those of the file alone, whatever read_only is.
C6_ReadOnlyFlag ==
    (last.op = "create_object" /\ last.err = "none") =>
        /\ last.out # {}
        /\ \A h \in last.out :
               LET properties == h.properties
               IN  /\ last.read_only
                          => /\ PROPERTY_READONLY \in DOMAIN properties
                             /\ properties[PROPERTY_READONLY] = TRUE
                   /\ ~last.read_only
                          => PROPERTY_READONLY \notin DOMAIN properties
                   /\ \A d \in StoredFor(h.identifier) :
                          d["properties"] = properties
                   /\ StoredFor(h.identifier) # {}
                   /\ DOMAIN properties \ {PROPERTY_READONLY} = OtherProperties
                   /\ properties[PROPERTY_NAME] = LastName
                   /\ properties[PROPERTY_FILENAME] = LastName
                   /\ properties[PROPERTY_FUNCDATAFILE] = LastName
                   /\ properties[PROPERTY_FILESIZE] = source_size(last.filename)
                   /\ properties[PROPERTY_MIMETYPE] = mimetype(LastName)

C6_Witness ==
    /\ last.op = "create_object"
    /\ last.err = "none"
    /\ last.read_only
    /\ \E h \in last.out, d \in docs :
           /\ d["_id"] = h.identifier
           /\ d["properties"][PROPERTY_READONLY] = TRUE

-----------------------------------------------------------------------------
(* C7 *)

RequiredFields == {"_id", "active", "timestamp", "properties"}

LacksField(document) ==
    \/ RequiredFields \ DOMAIN document # {}
    \/ PROPERTY_FILENAME \notin DOMAIN document["properties"]

\* a string of exactly the form YYYY-MM-DDTHH:MM:SS.ffffff
HasTimestampFormat(s) ==
    /\ Len(s) = Len(DateHourMinute) + 9
    /\ startswith(s, DateHourMinute)
    /\ s[Len(DateHourMinute) + 3] = "."
    /\ \A i \in {1, 2, 4, 5, 6, 7, 8, 9} : IsDigit(s[Len(DateHourMinute) + i])

\* a string strptime accepts for '%Y-%m-%dT%H:%M:%S.%f': one or two digits of
\* seconds, a point, one to six digits of fraction
ParsesAsTimestamp(s) ==
    \E ns \in 1..2, nf \in 1..6 :
        LET n == Len(DateHourMinute)
        IN  /\ Len(s) = n + ns + 1 + nf
            /\ startswith(s, DateHourMinute)
            /\ s[n + ns + 1] = "."
            /\ \A i \in (1..ns) \cup ((ns + 2)..(ns + 1 + nf)) : IsDigit(s[n + i])
            /\ atoi(SubSeq(s, n + 1, n + ns)) <= 61

\* C7 as stated: from_dict fails with a value error and returns no handle
\* whenever the document lacks a required field or its timestamp is not of
\* the form YYYY-MM-DDTHH:MM:SS.ffffff, and it never changes the store or
\* the filesystem.
C7_ValueErrorOnMalformed ==
    [][last'.op = "from_dict"
          => /\ (\/ LacksField(last'.document)
                 \/ ~HasTimestampFormat(last'.document["timestamp"]))
                    => last'.err = "ValueError" /\ last'.out = {}
             /\ dirs' = dirs /\ files' = files /\ docs' = docs]_vars

\* C7 amended: from_dict returns no handle and raises KeyError when the
\* document lacks _id, active or timestamp; otherwise ValueError when
\* strptime does not accept the timestamp; otherwise KeyError when it lacks
\* properties or the filename property; otherwise it returns a handle (a
\* timestamp with fewer than six digits of fraction is accepted). It never
\* changes the store or the filesystem.
C7_ErrorsOfFromDict ==
    [][last'.op = "from_dict"
          => LET document == last'.document
             IN  /\ IF {"_id", "active", "timestamp"} \ DOMAIN document # {}
                        THEN last'.err = "KeyError" /\ last'.out = {}
                    ELSE IF ~ParsesAsTimestamp(document["timestamp"])
                        THEN last'.err = "ValueError" /\ last'.out = {}
                    ELSE IF LacksField(document)
                        THEN last'.err = "KeyError" /\ last'.out = {}
                    ELSE last'.err = "none" /\ last'.out # {}
                 /\ dirs' = dirs /\ files' = files /\ docs' = docs]_vars

C7_Witness ==
    /\ last.op = "from_dict"
    /\ "active" \notin DOMAIN last.document
    /\ last.err = "KeyError"
    /\ last.out = {}
    /\ docs # {}

-----------------------------------------------------------------------------
(* C8 *)

\* C8: when the creation of the object directory, the creation of the data
\* directory or the copy fails, create_object raises the I/O error, inserts
\* no document, removes nothing, and leaves the directories created before
\* the failing step; when the insert fails or the process is killed between
\* the copy and the insert, the object directory holds the copied file and
\* the store holds no document for it.
C8_NoRollback ==
    [][(last'.op = "create_object" /\ calls' # calls)
          => \A id \in {last'.id}, filename \in {last'.filename} :
                 /\ last'.step \in {"makedirs", "mkdir", "copyfile"}
                        => /\ last'.err \in {"OSError", "IOError"}
                           /\ last'.out = {}
                           /\ docs' = docs
                           /\ dirs \subseteq dirs'
                           /\ files \subseteq files'
                 /\ last'.step = "mkdir" => ObjectDirOf(id) \in dirs'
                 /\ last'.step = "copyfile"
                        => ObjectDirOf(id) \in dirs' /\ DataDirOf(id) \in dirs'
                 /\ last'.step \in {"insert_object", "crash"}
                        => /\ last'.out = {}
                           /\ docs' = docs
                           /\ {d \in docs' : d["_id"] = id} = {}
                           /\ DataDirOf(id) \in dirs'
                           /\ \E f \in files' :
                                  f.path = DataDirOf(id) \o Slash
                                               \o basename(normpath(filename))
                 /\ last'.err # "none" => last'.out = {} /\ docs' = docs
                 /\ last'.err = "none" => last'.step = "done"]_vars

C8_Witness ==
    /\ last.op = "create_object"
    /\ last.step = "copyfile"
    /\ last.err = "IOError"
    /\ DataDirOf(last.id) \in dirs
    /\ StoredFor(last.id) = {}
    /\ docs # {}

-----------------------------------------------------------------------------
(* C9 *)

\* C9 as stated: when the directory of the generated identifier exists,
\* create_object fails with an I/O error, copies no file and inserts no
\* document, whether or not the directory holds a data subdirectory.
C9_FailsIfDirectoryExists ==
    [][(last'.op = "create_object" /\ calls' # calls
            /\ last'.step # "suffix" /\ ObjectDirOf(last'.id) \in dirs)
          => /\ last'.err \in {"OSError", "IOError"}
             /\ files' = files
             /\ docs' = docs]_vars

\* C9 amended: when the directory of the generated identifier exists,
\* create_object does not create it again. If it holds a data subdirectory,
\* the creation of the data subdirectory fails with an I/O error and
\* nothing is copied, inserted or created. If it holds none, the call goes
\* on in the existing directory: it never fails at the creation of the
\* object directory, and when no step fails it copies the file, inserts the
\* document and returns the handle.
C9_ExistingDirectory ==
    [][(last'.op = "create_object" /\ calls' # calls
            /\ last'.step # "suffix" /\ ObjectDirOf(last'.id) \in dirs)
          => IF DataDirOf(last'.id) \in dirs
                 THEN /\ last'.step = "mkdir"
                      /\ last'.err = "OSError"
                      /\ last'.out = {}
                      /\ dirs' = dirs /\ files' = files /\ docs' = docs
                 ELSE /\ last'.step # "makedirs"
                      /\ last'.step = "done"
                             => /\ last'.err = "none"
                                /\ \E f \in files' \ files :
                                       dirname(f.path) = DataDirOf(last'.id)
                                /\ \E d \in docs' \ docs :
                                       d["_id"] = last'.id]_vars

C9_Witness ==
    /\ last.op = "create_object"
    /\ last.step = "mkdir"
    /\ last.err = "OSError"
    /\ StoredFor(last.id) # {}
    /\ \E h \in {returned[i] : i \in 1..Len(returned)} :
           h.identifier = last.id

-----------------------------------------------------------------------------
(* C10 *)

\* C10: for every document of the store, the file
\* <base>/<_id>/data/<filename property> exists, holds all the bytes of the
\* file it was copied from, and has the size the document records;
\* directories without a document may exist.
C10_DocumentHasFile ==
    \A d \in docs :
        \E f \in files :
            /\ f.path = DataDirOf(d["_id"]) \o Slash
                            \o d["properties"][PROPERTY_FILENAME]
            /\ DataDirOf(d["_id"]) \in dirs
            /\ f.size = d["properties"][PROPERTY_FILESIZE]
            /\ Readable(f.source)
            /\ f.size = source_size(f.source)

C10_Witness ==
    /\ docs # {}
    /\ C10_DocumentHasFile
    /\ \E id \in Ids : ObjectDirOf(id) \in dirs /\ StoredFor(id) = {}
    /\ \E f \in files : f.size < source_size(f.source)

====
